---- MODULE Spec2Model ----
(***************************************************************************)
(* A model of the coping-style scoring engine (CopingEngine) of the        *)
(* wellness/marketing toolkit.                                             *)
(*                                                                         *)
(* Strings on which the code performs string operations (question ids,     *)
(* subscale names) are sequences of tokens: a token is either the          *)
(* separator "_" or a maximal run of characters without an underscore, so  *)
(* "avoidance_1" is <<"avoidance", "_", "1">>.  Strings that are only      *)
(* compared (labels, archetype names) are TLA+ strings.                    *)
(*                                                                         *)
(* Python floats are modelled by exact rationals in lowest terms,          *)
(* [num |-> n, den |-> d] with d > 0.                                      *)
(*                                                                         *)
(* A Python dict whose iteration order the code depends on is a sequence   *)
(* of <<key, value>> pairs in insertion order; a dict that is only looked  *)
(* up by key is a TLA+ function.                                           *)
(***************************************************************************)
EXTENDS Integers, Sequences, FiniteSets, TLC

VARIABLES
    archetypes,                  \* CopingEngine.archetypes (keys, in order)
    subscales,                   \* CopingEngine.subscales
    archetype_subscale_mapping,  \* CopingEngine.archetype_subscale_mapping
    responses,                   \* the argument of analyze_responses
    results,                     \* the results analyze_responses returned so far
    arg_subscale_scores,         \* the argument of _calculate_archetype_scores
    ret_archetype_scores,        \* what _calculate_archetype_scores last returned
    clock,                       \* datetime.now()
    threads,                     \* the invocations of analyze_responses in progress
    session,                     \* st.session_state
    io                           \* the calls made to the collaborators and what the user is shown

vars == <<archetypes, subscales, archetype_subscale_mapping, responses, results,
          arg_subscale_scores, ret_archetype_scores, clock, threads, session, io>>

(***************************************************************************)
(* Bounds of the model.                                                    *)
(***************************************************************************)
MaxResponses == 3
MaxCalls == 2
MaxChanged == 2
MaxThreads == 2
MaxSends == 2

(***************************************************************************)
(* Rationals.                                                              *)
(***************************************************************************)
RECURSIVE GCD(_, _)
GCD(a, b) == IF b = 0 THEN a ELSE GCD(b, a % b)

Frac(n, d) ==
    LET g == GCD(n, d)
    IN  IF n = 0 THEN [num |-> 0, den |-> 1] ELSE [num |-> n \div g, den |-> d \div g]

FracOfInt(n) == Frac(n, 1)
FracAdd(a, b) == Frac(a.num * b.den + b.num * a.den, a.den * b.den)
FracDivInt(a, k) == Frac(a.num, a.den * k)
FracLeq(a, b) == a.num * b.den <= b.num * a.den
FracLess(a, b) == a.num * b.den < b.num * a.den
Zero == FracOfInt(0)
One == FracOfInt(1)

(***************************************************************************)
(* str.split('_')[0]: the part of a string before its first underscore,    *)
(* the whole string when it has none.                                      *)
(***************************************************************************)
RECURSIVE split_first(_)
split_first(s) ==
    IF s = <<>> \/ Head(s) = "_" THEN <<>> ELSE <<Head(s)>> \o split_first(Tail(s))

(***************************************************************************)
(* The static catalogs.                                                    *)
(***************************************************************************)
problem_solving == <<"problem", "_", "solving">>
emotional_regulation == <<"emotional", "_", "regulation">>
social_support == <<"social", "_", "support">>
avoidance == <<"avoidance">>

_initialize_archetypes == <<"autonomous", "impulsive", "avoidant", "isolative">>

_initialize_subscales ==
    [s \in {problem_solving, emotional_regulation, social_support, avoidance} |-> Zero]

\* A variant of the mapping in which one archetype has no subscale yet.
_initialize_archetype_subscale_mapping_unfinished ==
    << <<"autonomous", <<problem_solving, emotional_regulation>> >>,
       <<"impulsive", <<emotional_regulation, avoidance>> >>,
       <<"avoidant", <<social_support, avoidance>> >>,
       <<"isolative", <<>> >> >>

_initialize_archetype_subscale_mapping ==
    << <<"autonomous", <<problem_solving, emotional_regulation>> >>,
       <<"impulsive", <<emotional_regulation, avoidance>> >>,
       <<"avoidant", <<social_support, avoidance>> >>,
       <<"isolative", <<social_support, problem_solving>> >> >>

\* education/coping_test.py QUESTIONS: id, subscale and weight of each entry.
QUESTIONS ==
    << [id |-> <<"q1">>, subscale |-> <<"Social Support Seeking">>, weight |-> 4],
       [id |-> <<"q2">>, subscale |-> <<"Focus on Solving the Problem">>, weight |-> 4],
       [id |-> <<"q3">>, subscale |-> <<"Striving and Achieving">>, weight |-> 4],
       [id |-> <<"q4">>, subscale |-> <<"Worrying">>, weight |-> 4],
       [id |-> <<"q5">>, subscale |-> <<"Ignoring the Problem">>, weight |-> 4],
       [id |-> <<"q6">>, subscale |-> <<"Reducing Tension">>, weight |-> 4],
       [id |-> <<"q7">>, subscale |-> <<"Self-Blame">>, weight |-> 4],
       [id |-> <<"q8">>, subscale |-> <<"Seeking Relaxing Diversions">>, weight |-> 7],
       [id |-> <<"q9">>, subscale |-> <<"Focusing on the Positive">>, weight |-> 7],
       [id |-> <<"q10">>, subscale |-> <<"Building Hopes">>, weight |-> 7] >>

CatalogIds == {QUESTIONS[i].id : i \in 1..Len(QUESTIONS)}
CatalogSubscale(q) == QUESTIONS[CHOOSE i \in 1..Len(QUESTIONS) : QUESTIONS[i].id = q].subscale

(***************************************************************************)
(* Ordered dicts: sequences of <<key, value>> pairs.                       *)
(***************************************************************************)
Get(d, k) == d[CHOOSE i \in 1..Len(d) : d[i][1] = k][2]

(***************************************************************************)
(* CopingEngine._calculate_subscale_scores                                 *)
(***************************************************************************)
ValidLabels == {"Never", "Rarely", "Sometimes", "Often", "Very Often"}

\* Variants of response_to_score with a plausible slip: zero-based codes, a
\* mid-scale default for an unrecognised label, the scale reversed.
response_to_score_zero_based(response) ==
    CASE response = "Never" -> 0
      [] response = "Rarely" -> 1
      [] response = "Sometimes" -> 2
      [] response = "Often" -> 3
      [] response = "Very Often" -> 4
      [] OTHER -> 0

response_to_score_default_mid(response) ==
    CASE response = "Never" -> 1
      [] response = "Rarely" -> 2
      [] response = "Sometimes" -> 3
      [] response = "Often" -> 4
      [] response = "Very Often" -> 5
      [] OTHER -> 3

response_to_score_reversed(response) ==
    CASE response = "Never" -> 5
      [] response = "Rarely" -> 4
      [] response = "Sometimes" -> 3
      [] response = "Often" -> 2
      [] response = "Very Often" -> 1
      [] OTHER -> 0

\* response_to_score.get(response, 0)
response_to_score(response) ==
    CASE response = "Never" -> 1
      [] response = "Rarely" -> 2
      [] response = "Sometimes" -> 3
      [] response = "Often" -> 4
      [] response = "Very Often" -> 5
      [] OTHER -> 0

\* The subscale a question id is filed under: question_id.split('_')[0].
subscale_of(question_id) == split_first(question_id)

\* The ids of the responses filed under subscale s.
scores_ids(rs, s) == {q \in DOMAIN rs : subscale_of(q) = s}

RECURSIVE sum_scores(_, _)
sum_scores(rs, ids) ==
    IF ids = {} THEN 0
    ELSE LET q == CHOOSE x \in ids : TRUE
         IN  response_to_score(rs[q]) + sum_scores(rs, ids \ {q})

\* Variant of normalize that forgets the division by 5.
normalize_unscaled(total, count) == FracDivInt(FracOfInt(total), count)

\* sum(scores) / len(scores) / 5
normalize(total, count) == FracDivInt(FracDivInt(FracOfInt(total), count), 5)

\* Variant of _calculate_subscale_scores that starts from the engine's subscale
\* table (every entry 0.0) instead of an empty dict.
_calculate_subscale_scores_prefilled(rs) ==
    [s \in {subscale_of(q) : q \in DOMAIN rs} \cup DOMAIN _initialize_subscales |->
        LET ids == scores_ids(rs, s)
        IN  IF ids = {} THEN Zero ELSE normalize(sum_scores(rs, ids), Cardinality(ids))]

_calculate_subscale_scores(rs) ==
    [s \in {subscale_of(q) : q \in DOMAIN rs} |->
        LET ids == scores_ids(rs, s)
        IN  normalize(sum_scores(rs, ids), Cardinality(ids))]

(***************************************************************************)
(* CopingEngine._calculate_archetype_scores                                *)
(***************************************************************************)
\* Variant of get_score whose default is 1.
get_score_default_one(subscale_scores, subscale) ==
    IF subscale \in DOMAIN subscale_scores THEN subscale_scores[subscale] ELSE One

\* subscale_scores.get(subscale, 0)
get_score(subscale_scores, subscale) ==
    IF subscale \in DOMAIN subscale_scores THEN subscale_scores[subscale] ELSE Zero

RECURSIVE sum_fracs(_)
sum_fracs(scores) ==
    IF scores = <<>> THEN Zero ELSE FracAdd(Head(scores), sum_fracs(Tail(scores)))

\* Variant of archetype_mean that averages the subscales present only.
archetype_mean_skip_missing(subscale_scores, subs) ==
    LET present == SelectSeq(subs, LAMBDA x : x \in DOMAIN subscale_scores)
    IN  IF present = <<>> THEN Zero
        ELSE FracDivInt(sum_fracs([i \in 1..Len(present) |-> subscale_scores[present[i]]]),
                        Len(present))

\* Variant of archetype_mean that divides by the number of scored subscales.
archetype_mean_over_scored(subscale_scores, subs) ==
    IF DOMAIN subscale_scores = {} THEN Zero
    ELSE FracDivInt(sum_fracs([i \in 1..Len(subs) |-> get_score(subscale_scores, subs[i])]),
                    Cardinality(DOMAIN subscale_scores))

\* sum(scores) / len(scores) of one archetype
archetype_mean(subscale_scores, subs) ==
    FracDivInt(sum_fracs([i \in 1..Len(subs) |-> get_score(subscale_scores, subs[i])]),
               Len(subs))

_calculate_archetype_scores(mapping, subscale_scores) ==
    [i \in 1..Len(mapping) |->
        <<mapping[i][1], archetype_mean(subscale_scores, mapping[i][2])>>]

(***************************************************************************)
(* CopingEngine.analyze_responses                                          *)
(***************************************************************************)
\* Variant of max_item that keeps the last maximal item.
RECURSIVE max_item_last(_, _, _)
max_item_last(items, i, best) ==
    IF i > Len(items) THEN best
    ELSE LET next == IF FracLeq(items[best][2], items[i][2]) THEN i ELSE best
         IN  max_item_last(items, i + 1, next)

\* max(items, key=lambda x: x[1]): the index of the first item whose value is
\* maximal.  best is the index of the maximum of items[1..i-1].
RECURSIVE max_item(_, _, _)
max_item(items, i, best) ==
    IF i > Len(items) THEN best
    ELSE LET next == IF FracLess(items[best][2], items[i][2]) THEN i ELSE best
         IN  max_item(items, i + 1, next)

\* max(archetype_scores.items(), key=lambda x: x[1])[0]
\* (the singleton set binds the argument to its value, so it is computed once)
dominant_of(archetype_scores) ==
    LET pick(items) == items[max_item(items, 2, 1)][1]
    IN  CHOOSE d \in {pick(items) : items \in {archetype_scores}} : TRUE

\* The exception analyze_responses raises, "none" when it returns: the mean of an
\* archetype without subscales divides by zero, max() of no item is a ValueError.
raised_by(mapping) ==
    IF \E i \in 1..Len(mapping) : Len(mapping[i][2]) = 0 THEN "ZeroDivisionError"
    ELSE IF Len(mapping) = 0 THEN "ValueError"
    ELSE "none"

\* A variant whose tie-break follows the time of the call.
analyze_responses_by_time(mapping, rs, now) ==
    LET subscale_scores == _calculate_subscale_scores(rs)
        archetype_scores == _calculate_archetype_scores(mapping, subscale_scores)
        n == Len(archetype_scores)
    IN  [raised |-> "none",
         dominant_archetype |->
             IF now % 2 = 0 THEN archetype_scores[max_item(archetype_scores, 2, 1)][1]
             ELSE archetype_scores[max_item_last(archetype_scores, 2, 1)][1],
         archetype_scores |-> archetype_scores,
         subscale_scores |-> subscale_scores,
         timestamp |-> now]

analyze_responses(mapping, rs, now) ==
    LET subscale_scores == _calculate_subscale_scores(rs)
        archetype_scores == _calculate_archetype_scores(mapping, subscale_scores)
    IN  IF raised_by(mapping) # "none"
        THEN [raised |-> raised_by(mapping)]
        ELSE [raised |-> "none",
              dominant_archetype |-> dominant_of(archetype_scores),
              archetype_scores |-> archetype_scores,
              subscale_scores |-> subscale_scores,
              timestamp |-> now]

(***************************************************************************)
(* Inputs.                                                                 *)
(***************************************************************************)
QuestionIds ==
    { <<"avoidance", "_", "1">>, <<"avoidance", "_", "2">>,
      <<"avoidance", "_", "3">>,
      <<"problem", "_", "solving", "_", "1">>,
      <<"q1">>, <<"bogus", "_", "id">> }

Labels == ValidLabels \cup {"Maybe"}

ResponseInputs ==
    UNION {[ids -> Labels] : ids \in {S \in SUBSET QuestionIds : Cardinality(S) <= MaxResponses}}

ScoreValues == {Frac(0, 5), Frac(1, 5), Frac(3, 5), Frac(5, 5)}
SubscaleNames == {problem_solving, emotional_regulation, social_support, avoidance, <<"q1">>}
SubscaleScoreInputs == UNION {[names -> ScoreValues] : names \in SUBSET SubscaleNames}

\* What collect_user_responses returns: one answer for every question of
\* QUESTIONS, the option selected in its radio group.
collect_user_responses(selected) == [q \in CatalogIds |-> selected[q]]

\* The selections of the form: a radio group starts on its first option,
\* "Never", and the user has moved at most MaxChanged of them.
FormSelections ==
    UNION { { [q \in CatalogIds |-> IF q \in moved THEN choice[q] ELSE "Never"] :
                choice \in [moved -> ValidLabels \ {"Never"}] } :
            moved \in {S \in SUBSET CatalogIds : Cardinality(S) <= MaxChanged} }

(***************************************************************************)
(* The state machine.                                                      *)
(***************************************************************************)
\* No page has run yet: st.session_state holds no key.
NoSession == <<>>

\* The process before a run, or after one in which no collaborator was called
\* and nothing was shown: whether OPENAI_API_KEY is set, the tool and the
\* event of the last run, the calls it made to the completion API and to the
\* database, the st.error messages, the exception that left it, and the
\* arguments and the return value of the AuthService call it made.
Quiet(api_key) ==
    [OPENAI_API_KEY |-> api_key, tool |-> "none", event |-> "none",
     llm_calls |-> 0, db_writes |-> 0, llm_outcome |-> "none", payload |-> <<>>,
     shown |-> <<>>, raised |-> "none", args |-> <<>>, returned |-> FALSE]

NoIO == Quiet(FALSE)

\* CopingEngine(), before a call of analyze_responses(responses)
Init ==
    /\ archetypes = _initialize_archetypes
    /\ subscales = _initialize_subscales
    /\ archetype_subscale_mapping = _initialize_archetype_subscale_mapping
    /\ responses \in ResponseInputs
    /\ arg_subscale_scores = <<>>
    /\ results = <<>>
    /\ ret_archetype_scores = <<>>
    /\ clock = 0
    /\ threads = <<>>
    /\ session = NoSession
    /\ io = NoIO

\* CopingEngine(), before a call of _calculate_archetype_scores(subscale_scores)
InitArchetypes ==
    /\ archetypes = _initialize_archetypes
    /\ subscales = _initialize_subscales
    /\ archetype_subscale_mapping = _initialize_archetype_subscale_mapping
    /\ responses = <<>>
    /\ arg_subscale_scores \in SubscaleScoreInputs
    /\ results = <<>>
    /\ ret_archetype_scores = <<>>
    /\ clock = 0
    /\ threads = <<>>
    /\ session = NoSession
    /\ io = NoIO

\* A variant of the call that keeps the scores it computed in self.subscales.
Analyze_keeping_scores ==
    /\ Len(results) < MaxCalls
    /\ results' = Append(results, analyze_responses(archetype_subscale_mapping, responses, clock))
    /\ clock' = clock + 1
    /\ subscales' = [s \in DOMAIN subscales |->
                        get_score(_calculate_subscale_scores(responses), s)]
    /\ UNCHANGED <<archetypes, archetype_subscale_mapping, responses,
                   arg_subscale_scores, ret_archetype_scores, threads, session, io>>

\* engine.analyze_responses(responses).  datetime.now() is read once per call and
\* the clock has moved on by the next call.
Analyze ==
    /\ Len(results) < MaxCalls
    /\ results' = Append(results, analyze_responses(archetype_subscale_mapping, responses, clock))
    /\ clock' = clock + 1
    /\ UNCHANGED <<archetypes, subscales, archetype_subscale_mapping, responses,
                   arg_subscale_scores, ret_archetype_scores, threads, session, io>>

\* engine._calculate_archetype_scores(subscale_scores)
ScoreArchetypes ==
    /\ ret_archetype_scores' =
          <<_calculate_archetype_scores(archetype_subscale_mapping, arg_subscale_scores)>>
    /\ UNCHANGED <<archetypes, subscales, archetype_subscale_mapping, responses, results,
                   arg_subscale_scores, clock, threads, session, io>>

Next == Analyze

\* The scoring of responses.
Spec == Init /\ [][Next]_vars

NextArchetypes == ScoreArchetypes

\* The scoring of archetypes from a subscale-score mapping given directly.
SpecArchetypes == InitArchetypes /\ [][NextArchetypes]_vars

\* CopingEngine(), before analyze_responses is called on the responses the
\* questionnaire form collects.
InitCatalog ==
    /\ archetypes = _initialize_archetypes
    /\ subscales = _initialize_subscales
    /\ archetype_subscale_mapping = _initialize_archetype_subscale_mapping
    /\ responses \in {collect_user_responses(selected) : selected \in FormSelections}
    /\ arg_subscale_scores = <<>>
    /\ results = <<>>
    /\ ret_archetype_scores = <<>>
    /\ clock = 0
    /\ threads = <<>>
    /\ session = NoSession
    /\ io = NoIO

NextCatalog == Analyze

\* The scoring of the responses of the questionnaire form.
SpecCatalog == InitCatalog /\ [][NextCatalog]_vars

\* The responses of the concurrent invocations: answers to an engine-style id
\* and to a catalog id, at the two ends of the scale.
ConcurrentInputs ==
    {r \in ResponseInputs :
        /\ DOMAIN r \subseteq {<<"avoidance", "_", "1">>, <<"q1">>}
        /\ \A q \in DOMAIN r : r[q] \in {"Never", "Very Often"}}

\* An invocation of analyze_responses that has not run its first statement.
Started(rs) ==
    [pc |-> "subscale_scores", responses |-> rs, subscale_scores |-> <<>>,
     archetype_scores |-> <<>>, result |-> <<>>]

\* One engine, and MaxThreads invocations of engine.analyze_responses started
\* on it, each with its own response.
InitConcurrent ==
    /\ archetypes = _initialize_archetypes
    /\ subscales = _initialize_subscales
    /\ archetype_subscale_mapping = _initialize_archetype_subscale_mapping
    /\ responses = <<>>
    /\ arg_subscale_scores = <<>>
    /\ results = <<>>
    /\ ret_archetype_scores = <<>>
    /\ clock = 0
    /\ threads \in [1..MaxThreads -> {Started(rs) : rs \in ConcurrentInputs}]
    /\ session = NoSession
    /\ io = NoIO

\* subscale_scores = self._calculate_subscale_scores(responses): the local
\* dict is built from the argument alone.
StepSubscaleScores(t) ==
    /\ threads[t].pc = "subscale_scores"
    /\ threads' = [threads EXCEPT ![t].pc = "archetype_scores",
                                  ![t].subscale_scores = _calculate_subscale_scores(threads[t].responses)]
    /\ UNCHANGED <<archetypes, subscales, archetype_subscale_mapping, responses, results,
                   arg_subscale_scores, ret_archetype_scores, clock, session, io>>

\* A variant of the second statement that scores the subscale dict some
\* invocation left behind, as if it were kept on the engine.
StepArchetypeScores_shared(t) ==
    /\ threads[t].pc = "archetype_scores"
    /\ \E u \in DOMAIN threads :
        /\ threads[u].pc # "subscale_scores"
        /\ threads' = [threads EXCEPT ![t].pc = "return",
                                      ![t].archetype_scores =
                                          _calculate_archetype_scores(archetype_subscale_mapping,
                                                                      threads[u].subscale_scores)]
    /\ UNCHANGED <<archetypes, subscales, archetype_subscale_mapping, responses, results,
                   arg_subscale_scores, ret_archetype_scores, clock, session, io>>

\* archetype_scores = self._calculate_archetype_scores(subscale_scores): reads
\* the mapping of the shared engine and the local subscale dict.
StepArchetypeScores(t) ==
    /\ threads[t].pc = "archetype_scores"
    /\ threads' = [threads EXCEPT ![t].pc = "return",
                                  ![t].archetype_scores =
                                      _calculate_archetype_scores(archetype_subscale_mapping,
                                                                  threads[t].subscale_scores)]
    /\ UNCHANGED <<archetypes, subscales, archetype_subscale_mapping, responses, results,
                   arg_subscale_scores, ret_archetype_scores, clock, session, io>>

\* dominant_archetype = max(...); return {...}: the result is built from the
\* two local dicts and the time of the return.
StepReturn(t) ==
    /\ threads[t].pc = "return"
    /\ threads' = [threads EXCEPT ![t].pc = "done",
                                  ![t].result =
                                      [raised |-> "none",
                                       dominant_archetype |-> dominant_of(threads[t].archetype_scores),
                                       archetype_scores |-> threads[t].archetype_scores,
                                       subscale_scores |-> threads[t].subscale_scores,
                                       timestamp |-> clock]]
    /\ clock' = clock + 1
    /\ UNCHANGED <<archetypes, subscales, archetype_subscale_mapping, responses, results,
                   arg_subscale_scores, ret_archetype_scores, session, io>>

NextConcurrent ==
    \E t \in DOMAIN threads :
        \/ StepSubscaleScores(t)
        \/ StepArchetypeScores(t)
        \/ StepReturn(t)

\* Invocations of analyze_responses on one engine, interleaved statement by
\* statement.
SpecConcurrent == InitConcurrent /\ [][NextConcurrent]_vars

(***************************************************************************)
(* utils/prompts.py                                                        *)
(***************************************************************************)
\* Python dicts of the session are sequences of <<key, value>> pairs.
Has(d, k) == \E i \in 1..Len(d) : d[i][1] = k

SYSTEM_PROMPTS ==
    << <<"general",
         [system |-> "You are a helpful AI assistant.",
          profiles |->
            << <<"autonomous", "For autonomous individuals, focus on logical reasoning and goal-oriented approaches.">>,
               <<"avoidant", "For avoidant individuals, provide gentle encouragement and validation.">>,
               <<"isolative", "For isolative individuals, respect personal space while offering support.">>,
               <<"impulsive", "For impulsive individuals, help with structured decision-making.">> >>]>>,
       <<"emotional_support",
         [system |-> "You are an empathetic AI assistant focused on emotional support.",
          profiles |->
            << <<"autonomous", "Consider signals like breathing and heart rate changes.">>,
               <<"avoidant", "Notice contradictory signals between feelings and expressions.">>,
               <<"isolative", "Notice changes in breathing patterns and tendency to withdraw.">>,
               <<"impulsive", "Notice signs of agitation and intense emotional responses.">> >>]>>,
       <<"marketing",
         [system |-> "You are a marketing AI assistant specialized in business strategy.",
          profiles |->
            << <<"autonomous", "Focus on data-driven decisions and measurable outcomes.">>,
               <<"avoidant", "Provide structured frameworks and clear guidelines.">>,
               <<"isolative", "Offer independent analysis tools and self-paced strategies.">>,
               <<"impulsive", "Help with systematic approach to market analysis.">> >>]>> >>

\* str.lower() on the profile types of the model.
lower(s) ==
    CASE s = "Autonomous" -> "autonomous"
      [] s = "AVOIDANT" -> "avoidant"
      [] OTHER -> s

\* get_system_prompt(category, user_profile): the base prompt of the category
\* ("general" for an unknown one), followed by the guidance of the profile type
\* when the profile names one the category knows.  The text is kept as the
\* sequence of its parts.
get_system_prompt(category, user_profile) ==
    LET cat == IF Has(SYSTEM_PROMPTS, category) THEN category ELSE "general"
        entry == Get(SYSTEM_PROMPTS, cat)
    IN  IF user_profile # <<>> /\ Has(user_profile, "profile_type")
           /\ Has(entry.profiles, lower(Get(user_profile, "profile_type")))
        THEN <<entry.system, "\n\nProfile-specific guidance: ",
               Get(entry.profiles, lower(Get(user_profile, "profile_type")))>>
        ELSE <<entry.system>>

(***************************************************************************)
(* core/chat_handler.py: ChatHandler.generate_response                     *)
(***************************************************************************)
\* What openai.ChatCompletion.create does when it is called: it returns a
\* completion, raises an openai.error.OpenAIError, or fails in another way
\* (a response without choices, for one).
LLMOutcomes == {"ok", "OpenAIError", "Exception"}

\* The text of the completion, and str.strip() on it.
CompletionText == "  Take a short walk. "
strip(s) == IF s = CompletionText THEN "Take a short walk." ELSE s

ServiceFallback == "I encountered an issue accessing the AI service. Please try again later."
RephraseFallback ==
    "I'm sorry, I encountered an error while processing your request. Could you rephrase it?"

\* The request: the system prompt, the context as user messages, the query.
request_messages(system_prompt, context, query) ==
    <<[role |-> "system", content |-> system_prompt]>>
    \o [i \in 1..Len(context) |-> [role |-> "user", content |-> <<context[i]>>]]
    \o <<[role |-> "user", content |-> <<query>>]>>

\* A variant that lets the failure of the call reach the caller.
generate_response_raising(query, context, category, user_profile, outcome) ==
    [raised |-> IF outcome = "ok" THEN "none" ELSE outcome,
     reply |-> IF outcome = "ok" THEN strip(CompletionText) ELSE "",
     llm_calls |-> 1,
     llm_outcome |-> outcome,
     payload |-> request_messages(get_system_prompt(category, user_profile), context, query)]

\* A variant that repeats the call once when the service fails.
generate_response_retrying(query, context, category, user_profile, outcome) ==
    [raised |-> "none",
     reply |-> CASE outcome = "ok" -> strip(CompletionText)
                 [] outcome = "OpenAIError" -> ServiceFallback
                 [] OTHER -> RephraseFallback,
     llm_calls |-> IF outcome = "OpenAIError" THEN 2 ELSE 1,
     llm_outcome |-> outcome,
     payload |-> request_messages(get_system_prompt(category, user_profile), context, query)]

\* generate_response: one call of the completion API inside a try; either
\* except clause returns its fixed text instead of raising.
generate_response(query, context, category, user_profile, outcome) ==
    [raised |-> "none",
     reply |-> CASE outcome = "ok" -> strip(CompletionText)
                 [] outcome = "OpenAIError" -> ServiceFallback
                 [] OTHER -> RephraseFallback,
     llm_calls |-> 1,
     llm_outcome |-> outcome,
     payload |-> request_messages(get_system_prompt(category, user_profile), context, query)]

(***************************************************************************)
(* components/chat_interface.py                                            *)
(***************************************************************************)
Apology == "I apologize, but I encountered an error. Please try again."

\* seq[-n:]
last(seq, n) == SubSeq(seq, IF Len(seq) > n THEN Len(seq) - n + 1 ELSE 1, Len(seq))

contents(msgs) == [i \in 1..Len(msgs) |-> msgs[i].content]

\* _get_ai_response(prompt), on the transcript that already holds the prompt.
\* Reading emotion_profile from assessment_results raises an AttributeError when
\* the stored value is None; that, like anything generate_response raises, ends
\* in the except clause of the method, which returns its own apology.
_get_ai_response(state, prompt, outcome) ==
    IF state.assessment_results.none
    THEN [reply |-> Apology, llm_calls |-> 0, llm_outcome |-> "none", payload |-> <<>>]
    ELSE LET user_profile == state.assessment_results.emotion_profile
             category == state.current_category
             context == contents(SelectSeq(last(state.messages, 5),
                                           LAMBDA msg : msg.role = "user"))
             response == generate_response(prompt, context, category, user_profile, outcome)
         IN  [reply |-> IF response.raised = "none" THEN response.reply ELSE Apology,
              llm_calls |-> response.llm_calls,
              llm_outcome |-> response.llm_outcome,
              payload |-> response.payload]

\* data/database.py: the methods DatabaseManager defines.
DatabaseManagerMethods == {"__init__", "get_session", "close"}

DisplayError == "An error occurred displaying the chat. Please refresh the page."

\* A variant of display that adds the assistant entry once the chat is saved.
display_reply_after_save(state, prompt, outcome, now) ==
    LET asked == [state EXCEPT !.messages =
                     Append(@, [role |-> "user", content |-> prompt, timestamp |-> now])]
        response == _get_ai_response(asked, prompt, outcome)
        answered == [asked EXCEPT !.messages =
                        Append(@, [role |-> "assistant", content |-> response.reply,
                                   timestamp |-> now + 1])]
        saved == "save_chat" \in DatabaseManagerMethods
    IN  [session |-> IF saved THEN answered ELSE asked,
         llm_calls |-> response.llm_calls,
         llm_outcome |-> response.llm_outcome,
         payload |-> response.payload,
         db_writes |-> IF saved THEN 1 ELSE 0,
         shown |-> IF saved THEN <<>> ELSE << <<DisplayError>> >>,
         raised |-> "none"]

\* ChatInterface.display() in a run in which the chat input holds prompt: the
\* user entry is appended, then the assistant entry with what _get_ai_response
\* returned, then self.db.save_chat is looked up; the AttributeError of a
\* method the manager lacks is caught by the except clause of display.
display(state, prompt, outcome, now) ==
    LET asked == [state EXCEPT !.messages =
                     Append(@, [role |-> "user", content |-> prompt, timestamp |-> now])]
        response == _get_ai_response(asked, prompt, outcome)
        answered == [asked EXCEPT !.messages =
                        Append(@, [role |-> "assistant", content |-> response.reply,
                                   timestamp |-> now + 1])]
        saved == "save_chat" \in DatabaseManagerMethods
    IN  [session |-> answered,
         llm_calls |-> response.llm_calls,
         llm_outcome |-> response.llm_outcome,
         payload |-> response.payload,
         db_writes |-> IF saved THEN 1 ELSE 0,
         shown |-> IF saved THEN <<>> ELSE << <<DisplayError>> >>,
         raised |-> "none"]

\* LLMService() and ChatHandler(): both raise a ValueError without an API key.
service_raises(api_key) == IF api_key THEN "none" ELSE "ValueError"

(***************************************************************************)
(* education/coping_test.py: render_coping_test                            *)
(***************************************************************************)
\* The parameters of CopingEngine.analyze_responses besides self, and the
\* keyword arguments render_coping_test passes next to the responses.
analyze_responses_parameters == {"responses"}
render_coping_test_keywords == {"questions"}

\* render_coping_test() in a run in which Submit is pressed or not: the call
\* with a keyword the method does not have raises a TypeError.
render_coping_test(submit) ==
    IF submit /\ ~(render_coping_test_keywords \subseteq analyze_responses_parameters)
    THEN "TypeError"
    ELSE "none"

\* The keys of the dict analyze_responses returns.
analysis_result_keys == {"dominant_archetype", "archetype_scores", "subscale_scores", "timestamp"}

\* str.capitalize() on the names display_coping_results can show.
capitalize(s) ==
    CASE s = "autonomous" -> "Autonomous"
      [] s = "impulsive" -> "Impulsive"
      [] s = "avoidant" -> "Avoidant"
      [] s = "isolative" -> "Isolative"
      [] OTHER -> s

\* The name display_coping_results writes under "Dominant Archetype":
\* results.get("profile_analysis", {}).get("dominant_profile", "Unknown"),
\* capitalized.  The result of the engine is read through the key
\* profile_analysis only.
display_coping_results(result) ==
    IF "profile_analysis" \in analysis_result_keys
    THEN capitalize(result.profile_analysis.dominant_profile)
    ELSE capitalize("Unknown")

(***************************************************************************)
(* marketing/seo_analyzer.py and core/llm_service.py                       *)
(***************************************************************************)
\* LLMService.generate_response(prompt): one call of the completion API; any
\* failure is raised again as a RuntimeError, a completion is returned as its
\* text, a str.
render_seo_analyzer(analyze, url, api_key, outcome) ==
    IF ~analyze \/ url = ""
    THEN [raised |-> "none", llm_calls |-> 0, llm_outcome |-> "none", shown |-> <<>>]
    ELSE IF service_raises(api_key) # "none"
    THEN [raised |-> service_raises(api_key), llm_calls |-> 0, llm_outcome |-> "none",
          shown |-> <<>>]
    ELSE [raised |-> "none", llm_calls |-> 1, llm_outcome |-> outcome,
          shown |-> IF outcome = "ok"
                    THEN << <<"An error occurred during analysis: ",
                               "'str' object has no attribute 'get'">> >>
                    ELSE << <<"An error occurred during analysis: ",
                               "Error generating response: ", outcome>> >>]

\* marketing/icp_questionnaire.py: the form is rendered and nothing is raised.
render_icp_questionnaire == "none"

(***************************************************************************)
(* auth/auth_service.py                                                    *)
(***************************************************************************)
\* A variant of register that stores the record whatever the store holds.
register_overwriting(users, email, password, name, service) ==
    [returned |-> TRUE,
     users |-> [e \in DOMAIN users \cup {email} |->
                   IF e = email
                   THEN [password |-> password, name |-> name, service |-> service]
                   ELSE users[e]]]

\* register(email, password, name, service) on the user store
register(users, email, password, name, service) ==
    IF email \in DOMAIN users
    THEN [returned |-> FALSE, users |-> users]
    ELSE [returned |-> TRUE,
          users |-> [e \in DOMAIN users \cup {email} |->
                        IF e = email
                        THEN [password |-> password, name |-> name, service |-> service]
                        ELSE users[e]]]

\* A variant of login that accepts any password of a registered email.
login_any_password(users, email, password) ==
    IF email \in DOMAIN users
    THEN [returned |-> TRUE,
          current_user |-> <<[email |-> email, name |-> users[email].name,
                              service |-> users[email].service]>>]
    ELSE [returned |-> FALSE, current_user |-> <<>>]

\* login(email, password): the new current_user when the login succeeds
login(users, email, password) ==
    IF email \in DOMAIN users /\ users[email].password = password
    THEN [returned |-> TRUE,
          current_user |-> <<[email |-> email, name |-> users[email].name,
                              service |-> users[email].service]>>]
    ELSE [returned |-> FALSE, current_user |-> <<>>]
(***************************************************************************)
(* main.py: one run of main() for each event of the user.                  *)
(***************************************************************************)
Emails == {"ann@example.com", "bob@example.com"}
Passwords == {"secret", "guess"}
Names == {"Ann"}
Services == {"Education", "Marketing"}
Prompts == {"I feel stuck", "What now?"}
Urls == {"", "https://example.com"}

\* What st.session_state.assessment_results holds: None, which
\* _initialize_session_state stores when the key is missing, or the dict an
\* assessment left there, with an emotion profile or without one.
AssessmentResults ==
    { [none |-> TRUE, emotion_profile |-> <<>>],
      [none |-> FALSE, emotion_profile |-> <<>>],
      [none |-> FALSE, emotion_profile |-> << <<"profile_type", "Autonomous">> >>] }

\* st.session_state once every `if key not in st.session_state` has run.
InitialSession(assessment_results) ==
    [authenticated |-> FALSE, users |-> <<>>, current_user |-> <<>>, messages |-> <<>>,
     current_category |-> "general", assessment_results |-> assessment_results,
     user |-> <<>>]

\* A process with the API key set or not, before the first run of main().
InitMain ==
    /\ archetypes = _initialize_archetypes
    /\ subscales = _initialize_subscales
    /\ archetype_subscale_mapping = _initialize_archetype_subscale_mapping
    /\ responses = <<>>
    /\ arg_subscale_scores = <<>>
    /\ results = <<>>
    /\ ret_archetype_scores = <<>>
    /\ clock = 0
    /\ threads = <<>>
    /\ \E assessment_results \in AssessmentResults :
           session = InitialSession(assessment_results)
    /\ \E api_key \in BOOLEAN : io = Quiet(api_key)

\* What a run of main() leaves: the calls the tool made, the messages shown
\* (each the sequence of its parts) and the exception that left main().  An exception of the tool is answered
\* with st.error and raised again.
main(selected_tool, event, tool) ==
    [OPENAI_API_KEY |-> io.OPENAI_API_KEY,
     tool |-> selected_tool,
     event |-> event,
     llm_calls |-> tool.llm_calls,
     db_writes |-> tool.db_writes,
     llm_outcome |-> tool.llm_outcome,
     payload |-> tool.payload,
     shown |-> IF tool.raised = "none" THEN tool.shown
               ELSE Append(tool.shown,
                           <<"An error occurred while using ", selected_tool, ". Please try again.">>),
     raised |-> tool.raised,
     args |-> <<>>,
     returned |-> FALSE]

\* A tool that called no collaborator.
Rendered(raised, shown) ==
    [llm_calls |-> 0, db_writes |-> 0, llm_outcome |-> "none", payload |-> <<>>,
     shown |-> shown, raised |-> raised]

engine == <<archetypes, subscales, archetype_subscale_mapping, responses, results,
            arg_subscale_scores, ret_archetype_scores, threads>>

\* main() while the user is not authenticated, no form submitted.
MainWelcome ==
    /\ ~session.authenticated
    /\ io' = main("Authentication", "view", Rendered("none", <<>>))
    /\ UNCHANGED <<engine, clock, session>>

\* main() with the registration form submitted.
MainRegister ==
    /\ ~session.authenticated
    /\ \E email \in Emails, password \in Passwords, name \in Names, service \in Services :
        LET registered == register(session.users, email, password, name, service)
        IN  /\ session' = [session EXCEPT !.users = registered.users,
                                          !.authenticated = registered.returned]
            /\ io' = [main("Authentication", "register",
                           Rendered("none",
                                    IF registered.returned THEN <<>>
                                    ELSE << <<"Registration failed. Email may already exist.">> >>))
                         EXCEPT !.args = <<email, password, name, service>>,
                                !.returned = registered.returned]
    /\ UNCHANGED <<engine, clock>>

\* main() with the login form submitted.
MainLogin ==
    /\ ~session.authenticated
    /\ \E email \in Emails, password \in Passwords :
        LET logged == login(session.users, email, password)
        IN  /\ session' = [session EXCEPT !.current_user =
                                              IF logged.returned THEN logged.current_user ELSE @,
                                          !.authenticated = logged.returned]
            /\ io' = [main("Authentication", "login",
                           Rendered("none",
                                    IF logged.returned THEN <<>>
                                    ELSE << <<"Invalid credentials. Please try again.">> >>))
                         EXCEPT !.args = <<email, password>>,
                                !.returned = logged.returned]
    /\ UNCHANGED <<engine, clock>>

\* A variant of the run that renders the coping test without the check of
\* st.session_state.authenticated.
MainCopingTest_ungated ==
    /\ \E submit \in BOOLEAN :
        io' = main("Coping Test", IF submit THEN "submit" ELSE "view",
                   Rendered(render_coping_test(submit), <<>>))
    /\ UNCHANGED <<engine, clock, session>>

\* main() with the tool "Coping Test", Submit pressed or not.
MainCopingTest ==
    /\ session.authenticated
    /\ \E submit \in BOOLEAN :
        io' = main("Coping Test", IF submit THEN "submit" ELSE "view",
                   Rendered(render_coping_test(submit), <<>>))
    /\ UNCHANGED <<engine, clock, session>>

\* main() with the tool "ICP Questionnaire".
MainIcpQuestionnaire ==
    /\ session.authenticated
    /\ io' = main("ICP Questionnaire", "view", Rendered(render_icp_questionnaire, <<>>))
    /\ UNCHANGED <<engine, clock, session>>

\* main() with the tool "SEO Analyzer", "Analyze Website" pressed or not.
MainSeoAnalyzer ==
    /\ session.authenticated
    /\ \E analyze \in BOOLEAN, url \in Urls, outcome \in LLMOutcomes :
        LET tool == render_seo_analyzer(analyze, url, io.OPENAI_API_KEY, outcome)
        IN  io' = main("SEO Analyzer", IF analyze /\ url # "" THEN "analyze" ELSE "view",
                       [llm_calls |-> tool.llm_calls, db_writes |-> 0,
                        llm_outcome |-> tool.llm_outcome, payload |-> <<>>,
                        shown |-> tool.shown, raised |-> tool.raised])
    /\ UNCHANGED <<engine, clock, session>>

\* main() with the tool "Chat" and nothing typed: ChatInterface(...) and
\* display() of the transcript.
MainChatView ==
    /\ session.authenticated
    /\ io' = main("Chat", "view", Rendered(service_raises(io.OPENAI_API_KEY), <<>>))
    /\ UNCHANGED <<engine, clock, session>>

\* main() with the tool "Chat" and a prompt typed into the chat input.
MainChatSend ==
    /\ session.authenticated
    /\ clock < 2 * MaxSends
    /\ \E prompt \in Prompts, outcome \in LLMOutcomes :
        IF service_raises(io.OPENAI_API_KEY) # "none"
        THEN /\ io' = main("Chat", "send", Rendered(service_raises(io.OPENAI_API_KEY), <<>>))
             /\ UNCHANGED <<session, clock>>
        ELSE LET tool == display(session, prompt, outcome, clock)
             IN  /\ session' = tool.session
                 /\ clock' = clock + 2
                 /\ io' = main("Chat", "send",
                               [llm_calls |-> tool.llm_calls, db_writes |-> tool.db_writes,
                                llm_outcome |-> tool.llm_outcome, payload |-> tool.payload,
                                shown |-> tool.shown, raised |-> tool.raised])
    /\ UNCHANGED engine

NextMain ==
    \/ MainWelcome
    \/ MainRegister
    \/ MainLogin
    \/ MainCopingTest
    \/ MainIcpQuestionnaire
    \/ MainSeoAnalyzer
    \/ MainChatView
    \/ MainChatSend

\* The runs of main() of one browser session.
SpecMain == InitMain /\ [][NextMain]_vars

(***************************************************************************)
(* main.py: MarketingFlow                                                  *)
(***************************************************************************)
\* The keys of st.session_state that some statement of the sources assigns.
session_state_keys ==
    {"authenticated", "users", "current_user", "messages", "current_category",
     "assessment_results", "user", "marketing_stage", "brand_data", "icp_data",
     "seo_analysis"}

BrandNames == {"Acme", "Clio"}
Industries == {"Technology", "Healthcare", "Education", "E-commerce", "Other"}
Demographics == {"students", "founders"}
Channels == {"Email", "Website"}

\* What the forms of the flow hold when a run starts.
FlowInputs ==
    [brand_name : BrandNames, industry : Industries, demographics : Demographics,
     channels : SUBSET Channels, url : Urls, outcome : LLMOutcomes]

\* MarketingFlow(db, coping_engine) in a new session: _initialize_session_state
\* stores the first stage and None for the two data fields.
InitialFlow ==
    [marketing_stage |-> "brand_questionnaire", brand_data |-> <<>>, icp_data |-> <<>>]

\* MarketingFlow.display() in a run in which the button of the stage (Next,
\* Analyze Website) is pressed or not.  The webpage stage reads
\* st.session_state.webpage_analysis after the analyzer has rendered, an
\* AttributeError for a key the session does not have.
flow_display(state, pressed, input, api_key) ==
    CASE state.marketing_stage = "brand_questionnaire" ->
            [session |-> IF pressed
                         THEN [state EXCEPT
                                  !.brand_data = <<[brand_name |-> input.brand_name,
                                                    industry |-> input.industry]>>,
                                  !.marketing_stage = "icp_questionnaire"]
                         ELSE state,
             llm_calls |-> 0, llm_outcome |-> "none", shown |-> <<>>, raised |-> "none"]
      [] state.marketing_stage = "icp_questionnaire" ->
            [session |-> IF pressed
                         THEN [state EXCEPT
                                  !.icp_data = <<[demographics |-> input.demographics,
                                                  channels |-> input.channels]>>,
                                  !.marketing_stage = "webpage_analyzer"]
                         ELSE state,
             llm_calls |-> 0, llm_outcome |-> "none", shown |-> <<>>, raised |-> "none"]
      [] state.marketing_stage = "webpage_analyzer" ->
            LET seo == render_seo_analyzer(pressed, input.url, api_key, input.outcome)
                found == "webpage_analysis" \in session_state_keys
            IN  [session |-> IF seo.raised = "none" /\ found
                             THEN [state EXCEPT !.marketing_stage = "marketing_chat"]
                             ELSE state,
                 llm_calls |-> seo.llm_calls, llm_outcome |-> seo.llm_outcome,
                 shown |-> seo.shown,
                 raised |-> IF seo.raised # "none" THEN seo.raised
                            ELSE IF found THEN "none" ELSE "AttributeError"]
      [] OTHER ->
            [session |-> state, llm_calls |-> 0, llm_outcome |-> "none", shown |-> <<>>,
             raised |-> service_raises(api_key)]

\* A process with the API key set or not, and a new MarketingFlow.
InitMarketing ==
    /\ archetypes = _initialize_archetypes
    /\ subscales = _initialize_subscales
    /\ archetype_subscale_mapping = _initialize_archetype_subscale_mapping
    /\ responses = <<>>
    /\ arg_subscale_scores = <<>>
    /\ results = <<>>
    /\ ret_archetype_scores = <<>>
    /\ clock = 0
    /\ threads = <<>>
    /\ session = InitialFlow
    /\ \E api_key \in BOOLEAN : io = Quiet(api_key)

\* What a run of display() leaves.
flow_run(event, run) ==
    [Quiet(io.OPENAI_API_KEY) EXCEPT
        !.tool = "MarketingFlow", !.event = event,
        !.llm_calls = run.llm_calls, !.llm_outcome = run.llm_outcome,
        !.shown = run.shown, !.raised = run.raised]

\* marketing_flow.display() with no button pressed
FlowView ==
    /\ \E input \in FlowInputs :
        LET run == flow_display(session, FALSE, input, io.OPENAI_API_KEY)
        IN  /\ session' = run.session
            /\ io' = flow_run("view", run)
    /\ UNCHANGED <<engine, clock>>

\* marketing_flow.display() with the button of the stage pressed on a filled form
FlowComplete ==
    /\ \E input \in FlowInputs :
        /\ input.url # ""
        /\ LET run == flow_display(session, TRUE, input, io.OPENAI_API_KEY)
           IN  /\ session' = run.session
               /\ io' = flow_run("complete", run)
    /\ UNCHANGED <<engine, clock>>

NextMarketing == FlowView \/ FlowComplete

\* The runs of MarketingFlow.display() of a user who keeps completing the
\* stage shown.
SpecMarketing == InitMarketing /\ [][NextMarketing]_vars /\ WF_vars(FlowComplete)

(***************************************************************************)
(* chat_handler.py: ChatHandler.suggest_category                           *)
(***************************************************************************)
\* A string is the sequence of its characters.
UpperLetters ==
    <<"A", "B", "C", "D", "E", "F", "G", "H", "I", "J", "K", "L", "M",
      "N", "O", "P", "Q", "R", "S", "T", "U", "V", "W", "X", "Y", "Z">>

LowerLetters ==
    <<"a", "b", "c", "d", "e", "f", "g", "h", "i", "j", "k", "l", "m",
      "n", "o", "p", "q", "r", "s", "t", "u", "v", "w", "x", "y", "z">>

\* str.lower()
str_lower(s) ==
    [i \in 1..Len(s) |->
        IF \E k \in 1..Len(UpperLetters) : UpperLetters[k] = s[i]
        THEN LowerLetters[CHOOSE k \in 1..Len(UpperLetters) : UpperLetters[k] = s[i]]
        ELSE s[i]]

\* keyword in text
str_in(keyword, text) ==
    \E i \in 0..(Len(text) - Len(keyword)) : SubSeq(text, i + 1, i + Len(keyword)) = keyword

\* The dict of suggest_category, in the order of its literal.
keywords_to_categories ==
    << <<"education", <<<<"s", "t", "u", "d", "y">>,
            <<"l", "e", "a", "r", "n">>,
            <<"t", "e", "a", "c", "h">>,
            <<"s", "t", "u", "d", "e", "n", "t">>>> >>,
       <<"marketing", <<<<"b", "r", "a", "n", "d">>,
            <<"S", "E", "O">>,
            <<"a", "d", "v", "e", "r", "t", "i", "s", "i", "n", "g">>,
            <<"c", "a", "m", "p", "a", "i", "g", "n">>>> >>,
       <<"human resources", <<<<"e", "m", "p", "l", "o", "y", "e", "e">>,
            <<"H", "R">>,
            <<"w", "o", "r", "k", "p", "l", "a", "c", "e">>,
            <<"c", "o", "n", "f", "l", "i", "c", "t">>>> >> >>

\* any(keyword in query.lower() for keyword in keywords)
any_keyword(keywords, query) ==
    \E k \in 1..Len(keywords) : str_in(keywords[k], str_lower(query))

\* suggest_category(query): the first category of the dict with a keyword in
\* the lowered query, "general" when the loop ends.
suggest_category(query) ==
    LET hits == {i \in 1..Len(keywords_to_categories) :
                    any_keyword(keywords_to_categories[i][2], query)}
    IN  IF hits = {} THEN "general"
        ELSE keywords_to_categories[CHOOSE i \in hits : \A j \in hits : i <= j][1]

\* The words of the queries.
Words ==
    { <<"S", "t", "u", "d", "y">>,
      <<"s", "t", "u", "d", "e", "n", "t", "s">>,
      <<"b", "r", "a", "n", "d">>,
      <<"S", "E", "O">>,
      <<"s", "e", "o">>,
      <<"C", "a", "m", "p", "a", "i", "g", "n">>,
      <<"H", "R">>,
      <<"h", "r">>,
      <<"e", "m", "p", "l", "o", "y", "e", "e">>,
      <<"t", "h", "r", "o", "u", "g", "h">>,
      <<"h", "e", "l", "l", "o">>,
      <<"m", "y">> }

\* The number of words of a query.
MaxWords == 2

RECURSIVE QueriesOf(_)
QueriesOf(n) ==
    IF n = 1 THEN Words
    ELSE QueriesOf(n - 1) \cup {q \o <<" ">> \o w : q \in QueriesOf(n - 1), w \in Words}

Queries == QueriesOf(MaxWords)

\* A process with the API key set, which ChatHandler() needs (llm_service.py).
InitSuggest ==
    /\ archetypes = _initialize_archetypes
    /\ subscales = _initialize_subscales
    /\ archetype_subscale_mapping = _initialize_archetype_subscale_mapping
    /\ responses = <<>>
    /\ arg_subscale_scores = <<>>
    /\ results = <<>>
    /\ ret_archetype_scores = <<>>
    /\ clock = 0
    /\ threads = <<>>
    /\ session = NoSession
    /\ io = Quiet(TRUE)

\* chat_handler.suggest_category(query)
Suggest ==
    /\ \E query \in Queries :
          io' = [Quiet(TRUE) EXCEPT !.tool = "ChatHandler", !.event = "suggest_category",
                                    !.args = query, !.returned = suggest_category(query)]
    /\ UNCHANGED <<engine, clock, session>>

NextSuggest == Suggest

SpecSuggest == InitSuggest /\ [][NextSuggest]_vars

(***************************************************************************)
(* AuthService: register and login called on one session.                  *)
(***************************************************************************)
\* AuthService() in a new session: the user store is empty.
InitAuth ==
    /\ archetypes = _initialize_archetypes
    /\ subscales = _initialize_subscales
    /\ archetype_subscale_mapping = _initialize_archetype_subscale_mapping
    /\ responses = <<>>
    /\ arg_subscale_scores = <<>>
    /\ results = <<>>
    /\ ret_archetype_scores = <<>>
    /\ clock = 0
    /\ threads = <<>>
    /\ session = InitialSession([none |-> TRUE, emotion_profile |-> <<>>])
    /\ io = Quiet(FALSE)

\* auth_service.register(email, password, name, service)
AuthRegister ==
    /\ \E email \in Emails, password \in Passwords, name \in Names, service \in Services :
        LET registered == register(session.users, email, password, name, service)
        IN  /\ session' = [session EXCEPT !.users = registered.users]
            /\ io' = [Quiet(io.OPENAI_API_KEY) EXCEPT
                          !.tool = "AuthService", !.event = "register",
                          !.args = <<email, password, name, service>>,
                          !.returned = registered.returned]
    /\ UNCHANGED <<engine, clock>>

\* auth_service.login(email, password)
AuthLogin ==
    /\ \E email \in Emails, password \in Passwords :
        LET logged == login(session.users, email, password)
        IN  /\ session' = [session EXCEPT !.current_user =
                                              IF logged.returned THEN logged.current_user ELSE @]
            /\ io' = [Quiet(io.OPENAI_API_KEY) EXCEPT
                          !.tool = "AuthService", !.event = "login",
                          !.args = <<email, password>>,
                          !.returned = logged.returned]
    /\ UNCHANGED <<engine, clock>>

NextAuth == AuthRegister \/ AuthLogin

\* Calls of register and login in any order.
SpecAuth == InitAuth /\ [][NextAuth]_vars

(***************************************************************************)
(* ChatInterface: display() with a prompt, and clear_chat().               *)
(***************************************************************************)
\* A ChatInterface constructed in the session of a registered user.
InitChat ==
    /\ archetypes = _initialize_archetypes
    /\ subscales = _initialize_subscales
    /\ archetype_subscale_mapping = _initialize_archetype_subscale_mapping
    /\ responses = <<>>
    /\ arg_subscale_scores = <<>>
    /\ results = <<>>
    /\ ret_archetype_scores = <<>>
    /\ clock = 0
    /\ threads = <<>>
    /\ \E assessment_results \in AssessmentResults :
           session = [InitialSession(assessment_results) EXCEPT
                         !.authenticated = TRUE,
                         !.users = register(<<>>, "ann@example.com", "secret", "Ann",
                                            "Education").users]
    /\ io = Quiet(TRUE)

\* chat_interface.display() with a prompt in the chat input
ChatDisplay ==
    /\ clock < 2 * MaxSends
    /\ \E prompt \in Prompts, outcome \in LLMOutcomes :
        LET shown == display(session, prompt, outcome, clock)
        IN  /\ session' = shown.session
            /\ io' = [Quiet(io.OPENAI_API_KEY) EXCEPT
                          !.tool = "Chat", !.event = "send",
                          !.llm_calls = shown.llm_calls, !.db_writes = shown.db_writes,
                          !.llm_outcome = shown.llm_outcome, !.payload = shown.payload,
                          !.shown = shown.shown, !.raised = shown.raised]
    /\ clock' = clock + 2
    /\ UNCHANGED engine

\* chat_interface.clear_chat(): the transcript is emptied, then the lookup of
\* self.db.clear_chat_history raises the AttributeError of a method the
\* manager lacks.
ChatClear ==
    /\ session' = [session EXCEPT !.messages = <<>>]
    /\ io' = [Quiet(io.OPENAI_API_KEY) EXCEPT
                  !.tool = "Chat", !.event = "clear",
                  !.db_writes = IF "clear_chat_history" \in DatabaseManagerMethods THEN 1 ELSE 0,
                  !.raised = IF "clear_chat_history" \in DatabaseManagerMethods
                             THEN "none" ELSE "AttributeError"]
    /\ UNCHANGED <<engine, clock>>

NextChat == ChatDisplay \/ ChatClear

\* Chat submissions and clear_chat calls on one ChatInterface.
SpecChat == InitChat /\ [][NextChat]_vars

\* The shape of the state in Spec, SpecArchetypes and SpecCatalog.
TypeOK ==
    /\ Len(results) <= MaxCalls
    /\ Len(ret_archetype_scores) <= 1
    /\ clock = Len(results)
    /\ \A i \in 1..Len(results) : results[i].raised \in {"none", "ZeroDivisionError", "ValueError"}

(***************************************************************************)
(* Auxiliary definitions of the properties.                                *)
(***************************************************************************)
\* The results analyze_responses has returned.
Returned == {results[i] : i \in 1..Len(results)}

\* The answered ids the code files under subscale s, and how many carry label l.
AnswersOf(s) == {q \in DOMAIN responses : subscale_of(q) = s}
CountOf(s, l) == Cardinality({q \in AnswersOf(s) : responses[q] = l})

FracEq(a, b) == a.num * b.den = b.num * a.den

AllValid == \A q \in DOMAIN responses : responses[q] \in ValidLabels

(***************************************************************************)
(* C1: every subscale with at least one response is scored                 *)
(* sum(codes)/count(codes)/5 with Never=1, Rarely=2, Sometimes=3, Often=4, *)
(* Very Often=5 (an unrecognised label counts with code 0).                *)
(***************************************************************************)
C1_SubscaleScoreIsNormalizedMean ==
    \A r \in Returned :
        /\ \A q \in DOMAIN responses : subscale_of(q) \in DOMAIN r.subscale_scores
        /\ \A s \in DOMAIN r.subscale_scores :
            LET total == 1 * CountOf(s, "Never") + 2 * CountOf(s, "Rarely")
                         + 3 * CountOf(s, "Sometimes") + 4 * CountOf(s, "Often")
                         + 5 * CountOf(s, "Very Often")
                count == Cardinality(AnswersOf(s))
                score == r.subscale_scores[s]
            IN  /\ count > 0
                /\ score.den > 0
                /\ score.num * 5 * count = total * score.den

\* Every answer of a subscale with MaxResponses answers is "Often": the score is 0.8.
C1_Witness ==
    \E r \in Returned :
        /\ Cardinality(AnswersOf(avoidance)) = MaxResponses
        /\ \A q \in AnswersOf(avoidance) : responses[q] = "Often"
        /\ r.subscale_scores[avoidance] = [num |-> 4, den |-> 5]

(***************************************************************************)
(* C2: _calculate_archetype_scores returns one entry for every archetype   *)
(* of the engine, each the mean over the archetype's subscales of the      *)
(* subscale score, 0 standing for a subscale missing from the input.       *)
(***************************************************************************)
ArchetypeScoresOk(out, input) ==
    /\ Len(out) = Len(archetypes)
    /\ \A i \in 1..Len(out) :
        /\ out[i][1] = archetypes[i]
        /\ LET subs == Get(archetype_subscale_mapping, out[i][1])
               a == IF subs[1] \in DOMAIN input THEN input[subs[1]] ELSE [num |-> 0, den |-> 1]
               b == IF subs[2] \in DOMAIN input THEN input[subs[2]] ELSE [num |-> 0, den |-> 1]
               v == out[i][2]
           IN  /\ Len(subs) = 2
               /\ v.den > 0
               /\ 2 * v.num * a.den * b.den = v.den * (a.num * b.den + b.num * a.den)

C2_ArchetypeScoresTotalMean ==
    \A i \in 1..Len(ret_archetype_scores) :
        ArchetypeScoresOk(ret_archetype_scores[i], arg_subscale_scores)

\* A direct call where problem_solving is 1 and emotional_regulation is missing:
\* autonomous averages 1 and the substituted 0.
C2_Witness ==
    /\ Len(ret_archetype_scores) = 1
    /\ problem_solving \in DOMAIN arg_subscale_scores
    /\ arg_subscale_scores[problem_solving] = One
    /\ emotional_regulation \notin DOMAIN arg_subscale_scores
    /\ Get(ret_archetype_scores[1], "autonomous") = [num |-> 1, den |-> 2]

(***************************************************************************)
(* C3: the dominant archetype has the maximum archetype score, and among   *)
(* the archetypes sharing the maximum it is the first in the definition    *)
(* order autonomous, impulsive, avoidant, isolative.                       *)
(***************************************************************************)
DefinitionOrder == <<"autonomous", "impulsive", "avoidant", "isolative">>

C3_DominantIsFirstMaximum ==
    \A r \in Returned :
        \E i \in 1..Len(DefinitionOrder) :
            /\ r.dominant_archetype = DefinitionOrder[i]
            /\ \A j \in 1..Len(DefinitionOrder) :
                LET di == Get(r.archetype_scores, DefinitionOrder[i])
                    dj == Get(r.archetype_scores, DefinitionOrder[j])
                IN  /\ FracLeq(dj, di)
                    /\ j < i => FracLess(dj, di)

\* Two archetypes share a non-zero maximum and the earlier one is dominant.
C3_Witness ==
    \E r \in Returned :
        /\ r.dominant_archetype = "impulsive"
        /\ Get(r.archetype_scores, "avoidant") = Get(r.archetype_scores, "impulsive")
        /\ FracLess(Zero, Get(r.archetype_scores, "impulsive"))

(***************************************************************************)
(* C4 (as stated): an answer to a catalog question is filed under the      *)
(* subscale its QUESTIONS entry names, and under no other.                 *)
(***************************************************************************)
C4_GroupedByCatalogSubscale ==
    \A r \in Returned :
        \A q \in DOMAIN responses \cap CatalogIds :
            /\ CatalogSubscale(q) \in DOMAIN r.subscale_scores
            /\ \A rest \in {_calculate_subscale_scores(
                                [x \in DOMAIN responses \ {q} |-> responses[x]])} :
                \A s \in DOMAIN r.subscale_scores \ {CatalogSubscale(q)} :
                    s \in DOMAIN rest /\ rest[s] = r.subscale_scores[s]

(***************************************************************************)
(* C5 (as stated): adding an answer "Often" under an id that is not in the *)
(* question catalog changes neither the subscale scores nor the archetype  *)
(* scores.                                                                 *)
(***************************************************************************)
WithAnswer(q, l) == [x \in DOMAIN responses \cup {q} |-> IF x = q THEN l ELSE responses[x]]

C5_UnknownIdIgnored ==
    \A r \in Returned :
        \A bogus \in QuestionIds \ (CatalogIds \cup DOMAIN responses) :
            \A extended \in {analyze_responses(archetype_subscale_mapping,
                                                WithAnswer(bogus, "Often"), clock)} :
                /\ extended.subscale_scores = r.subscale_scores
                /\ extended.archetype_scores = r.archetype_scores

(***************************************************************************)
(* C6: analyze_responses of the empty response raises nothing and returns  *)
(* no subscale score, the score 0 for every archetype and the first        *)
(* archetype defined, autonomous, as dominant.                             *)
(***************************************************************************)
C6_EmptyResponse ==
    DOMAIN responses = {} =>
        \A r \in Returned :
            /\ r.raised = "none"
            /\ DOMAIN r.subscale_scores = {}
            /\ Len(r.archetype_scores) = 4
            /\ \A i \in 1..Len(r.archetype_scores) :
                r.archetype_scores[i][2] = [num |-> 0, den |-> 1]
            /\ r.dominant_archetype = "autonomous"

C6_Witness == DOMAIN responses = {} /\ Len(results) > 0

(***************************************************************************)
(* C7: an unrecognised label is accepted, counts as an answer of its       *)
(* subscale with code 0 and so never raises the subscale's mean: alone it  *)
(* gives the score 0, next to other answers it lowers their mean.          *)
(***************************************************************************)
Without(q) == [x \in DOMAIN responses \ {q} |-> responses[x]]

C7_UnknownLabelScoresZero ==
    \A r \in Returned :
        \A q \in DOMAIN responses :
            responses[q] \notin ValidLabels =>
                \A s \in {subscale_of(q)}, rest \in {_calculate_subscale_scores(Without(q))} :
                    /\ r.raised = "none"
                    /\ s \in DOMAIN r.subscale_scores
                    /\ s \notin DOMAIN rest => r.subscale_scores[s] = [num |-> 0, den |-> 1]
                    /\ s \in DOMAIN rest =>
                        /\ FracLeq(r.subscale_scores[s], rest[s])
                        /\ FracLess(Zero, rest[s]) => FracLess(r.subscale_scores[s], rest[s])
                        /\ LET n == Cardinality(AnswersOf(s))
                           IN  FracEq(r.subscale_scores[s],
                                      [num |-> rest[s].num * (n - 1), den |-> rest[s].den * n])

\* An unrecognised label next to a recognised one of the same subscale halves the mean.
C7_Witness ==
    \E r \in Returned :
        \E q \in DOMAIN responses :
            /\ responses[q] \notin ValidLabels
            /\ Cardinality(AnswersOf(subscale_of(q))) = 2
            /\ FracLess(Zero, r.subscale_scores[subscale_of(q)])

(***************************************************************************)
(* C8: the keys of the subscale scores are exactly the subscales that      *)
(* received a response; a subscale without response is absent, not 0.      *)
(***************************************************************************)
C8_KeysAreAnsweredSubscales ==
    \A r \in Returned :
        /\ \A s \in DOMAIN r.subscale_scores : \E q \in DOMAIN responses : subscale_of(q) = s
        /\ \A q \in DOMAIN responses : subscale_of(q) \in DOMAIN r.subscale_scores
        /\ \A s \in DOMAIN subscales : AnswersOf(s) = {} => s \notin DOMAIN r.subscale_scores

\* Some subscales are scored while avoidance, a subscale of the engine, has no answer.
C8_Witness ==
    \E r \in Returned :
        /\ DOMAIN r.subscale_scores # {}
        /\ avoidance \in DOMAIN subscales
        /\ avoidance \notin DOMAIN r.subscale_scores

(***************************************************************************)
(* C9: when every label is one of the five recognised ones, every subscale *)
(* score and every archetype score lies in [0, 1].                         *)
(***************************************************************************)
InUnit(v) == v.den > 0 /\ 0 <= v.num /\ v.num <= v.den

C9_ScoresInUnitInterval ==
    AllValid =>
        \A r \in Returned :
            /\ \A s \in DOMAIN r.subscale_scores : InUnit(r.subscale_scores[s])
            /\ \A i \in 1..Len(r.archetype_scores) : InUnit(r.archetype_scores[i][2])

\* Every answer is "Very Often": a subscale reaches the upper end 1.
C9_Witness ==
    \E r \in Returned :
        /\ AllValid
        /\ \E s \in DOMAIN r.subscale_scores : r.subscale_scores[s] = [num |-> 1, den |-> 1]

(***************************************************************************)
(* C10: changing one answer from "Never" to "Very Often", the others       *)
(* unchanged, lowers neither the score of the answer's subscale nor the    *)
(* score of any archetype whose subscales include it.                      *)
(***************************************************************************)
C10_Monotone ==
    \A r \in Returned :
        \A q \in DOMAIN responses :
            responses[q] = "Never" =>
                \A s \in {subscale_of(q)},
                   raisedTo \in {analyze_responses(archetype_subscale_mapping,
                                                    WithAnswer(q, "Very Often"), clock)} :
                    /\ FracLeq(r.subscale_scores[s], raisedTo.subscale_scores[s])
                    /\ \A i \in 1..Len(archetype_subscale_mapping) :
                        (\E k \in 1..Len(archetype_subscale_mapping[i][2]) :
                            archetype_subscale_mapping[i][2][k] = s)
                        => FracLeq(Get(r.archetype_scores, archetype_subscale_mapping[i][1]),
                                   Get(raisedTo.archetype_scores, archetype_subscale_mapping[i][1]))

\* A "Never" answer in avoidance, a subscale of the archetypes impulsive and avoidant.
C10_Witness ==
    \E r \in Returned :
        \E q \in DOMAIN responses :
            /\ responses[q] = "Never"
            /\ subscale_of(q) = avoidance
            /\ Cardinality(AnswersOf(avoidance)) > 1
            /\ FracLess(Zero, Get(r.archetype_scores, "avoidant"))
\* C11: two analyze calls with an identical response return identical subscale
\* scores, identical archetype scores and the same dominant archetype; the
\* timestamp is the only field that may differ.
C11_Idempotent ==
    \A i, j \in 1..Len(results) :
        /\ results[i].raised = results[j].raised
        /\ results[i].raised = "none" =>
            /\ results[i].subscale_scores = results[j].subscale_scores
            /\ results[i].archetype_scores = results[j].archetype_scores
            /\ results[i].dominant_archetype = results[j].dominant_archetype

\* Two calls with the same answered response have returned, at different times.
C11_Witness ==
    /\ Len(results) = 2
    /\ DOMAIN responses # {}
    /\ results[1].raised = "none" /\ results[2].raised = "none"
    /\ results[1].timestamp # results[2].timestamp
    /\ results[1].subscale_scores # <<>>

AllNever == [q \in CatalogIds |-> "Never"]

\* C12: when every question of the catalog is answered "Never", every subscale
\* score is 1/5, every archetype score is 1/5 and the dominant archetype is the
\* first-defined one.
C12_AllNever ==
    responses = AllNever =>
        \A r \in Returned :
            /\ r.raised = "none"
            /\ \A s \in DOMAIN r.subscale_scores : FracEq(r.subscale_scores[s], Frac(1, 5))
            /\ \A i \in 1..Len(r.archetype_scores) : FracEq(r.archetype_scores[i][2], Frac(1, 5))
            /\ r.dominant_archetype = archetypes[1]

\* The subscales some archetype of the mapping averages.
MappedSubscales ==
    UNION {{archetype_subscale_mapping[i][2][k] : k \in 1..Len(archetype_subscale_mapping[i][2])} :
           i \in 1..Len(archetype_subscale_mapping)}

\* The answers whose subscale belongs to no archetype.
Dangling == {q \in DOMAIN responses : subscale_of(q) \notin MappedSubscales}

WithoutAll(qs) == [x \in DOMAIN responses \ qs |-> responses[x]]

\* C13: answers whose subscale belongs to no archetype are inert: the response
\* with them scores every archetype, and names the dominant archetype, exactly
\* as the response without them, and the call raises nothing.
C13_DanglingInert ==
    Returned # {} =>
        \A added \in SUBSET Dangling \ {{}} :
            \A base \in {analyze_responses(archetype_subscale_mapping, WithoutAll(added), clock)} :
                \A r \in Returned :
                    /\ r.raised = "none"
                    /\ base.raised = "none"
                    /\ r.archetype_scores = base.archetype_scores
                    /\ r.dominant_archetype = base.dominant_archetype

\* A response with two dangling answers next to an answer that counts has been
\* scored, and an archetype has a positive score.
C13_Witness ==
    /\ Cardinality(Dangling) = 2
    /\ DOMAIN responses \ Dangling # {}
    /\ \E r \in Returned : \E i \in 1..Len(r.archetype_scores) :
            FracLess(Zero, r.archetype_scores[i][2])

\* C14: analyze has no side effects: no step of a sequence of analyze calls
\* changes the catalogs of the engine (archetypes, subscales, the mapping) or
\* the response it was given, and none calls the text generation or the
\* persistence.
C14_NoSideEffects ==
    [][/\ archetypes' = archetypes
       /\ subscales' = subscales
       /\ archetype_subscale_mapping' = archetype_subscale_mapping
       /\ responses' = responses
       /\ io'.llm_calls = io.llm_calls
       /\ io'.db_writes = io.db_writes]_vars

\* After MaxCalls calls on a response that scores the subscale avoidance, the
\* catalogs are those of the construction and no collaborator was called.
C14_Witness ==
    /\ Len(results) = MaxCalls
    /\ \A r \in Returned :
            r.raised = "none" /\ FracLess(Zero, get_score(r.subscale_scores, avoidance))
    /\ archetypes = _initialize_archetypes
    /\ subscales = _initialize_subscales
    /\ archetype_subscale_mapping = _initialize_archetype_subscale_mapping
    /\ io.llm_calls = 0 /\ io.db_writes = 0

ArchetypeNames == {archetypes[i] : i \in 1..Len(archetypes)}

\* C15: scoring is total: whatever the response maps its ids to (no id at all,
\* ids outside the catalog, labels outside the scale), analyze returns a result
\* with a dominant archetype and scores for every archetype, and raises nothing.
C15_Total ==
    \A i \in 1..Len(results) :
        /\ results[i].raised = "none"
        /\ results[i].dominant_archetype \in ArchetypeNames
        /\ Len(results[i].archetype_scores) = Len(archetypes)
        /\ DOMAIN results[i].subscale_scores = {subscale_of(q) : q \in DOMAIN responses}
        /\ results[i].timestamp = i - 1

\* A result was returned for a response that has an id outside the catalog with
\* a label outside the scale.
C15_Witness ==
    /\ Returned # {}
    /\ \A r \in Returned : r.raised = "none"
    /\ \E q \in DOMAIN responses : q \notin CatalogIds /\ responses[q] \notin ValidLabels

\* The last run of main() sent a chat message and the completion call failed.
ChatCallFailed ==
    /\ io.tool = "Chat" /\ io.event = "send"
    /\ io.llm_outcome \in {"OpenAIError", "Exception"}

\* C17: when the completion call fails while a chat message is answered,
\* nothing is raised: generate_response returns its fixed fallback text, and
\* that text is the content of the assistant entry appended to the transcript
\* after the user entry of the prompt.
C17_FallbackIsTheReply ==
    ChatCallFailed =>
        LET n == Len(session.messages)
        IN  /\ io.raised = "none"
            /\ n >= 2
            /\ session.messages[n - 1].role = "user"
            /\ session.messages[n].role = "assistant"
            /\ session.messages[n].content =
                   IF io.llm_outcome = "OpenAIError" THEN ServiceFallback ELSE RephraseFallback

\* A second chat message was answered with the fallback of a failed service.
C17_Witness ==
    /\ ChatCallFailed
    /\ io.llm_outcome = "OpenAIError"
    /\ Len(session.messages) = 4
    /\ session.messages[4].content = ServiceFallback

\* C18: no run of main() ends with an exception: whatever a selected tool
\* raises is turned into a message.
C18_NoExceptionLeavesMain == io.raised = "none"

\* C19: a user action makes at most one call of the completion API and at most
\* one write to the database, so a failed call is not repeated.
C19_AtMostOneCall ==
    /\ io.llm_calls <= 1
    /\ io.db_writes <= 1
    /\ io.event = "submit" => io.llm_calls = 0

\* A chat message whose completion call failed in an unexpected way made one
\* call and no write.
C19_Witness ==
    /\ io.tool = "Chat" /\ io.event = "send"
    /\ io.llm_outcome = "Exception"
    /\ io.llm_calls = 1
    /\ io.db_writes = 0

\* The subscale names the questions of the catalog carry.
CatalogSubscales == {QUESTIONS[i].subscale : i \in 1..Len(QUESTIONS)}

\* Some archetype refers to a subscale that no question of the catalog has.
CatalogInconsistent == MappedSubscales \ CatalogSubscales # {}

\* C20: an engine whose mapping refers to a subscale of no question fails when
\* it is constructed, so analyze never returns a result from such an engine.
C20_FailsFastAtStartup == CatalogInconsistent => Returned = {}

\* C16: under every interleaving, an invocation that shares the engine with
\* others returns the subscale scores, archetype scores and dominant archetype
\* it returns when it runs alone on the same response.
C16_NoInterference ==
    \A t \in DOMAIN threads :
        threads[t].pc = "done" =>
            \A alone \in {analyze_responses(_initialize_archetype_subscale_mapping,
                                            threads[t].responses, 0)} :
                /\ threads[t].result.raised = "none"
                /\ threads[t].result.subscale_scores = alone.subscale_scores
                /\ threads[t].result.archetype_scores = alone.archetype_scores
                /\ threads[t].result.dominant_archetype = alone.dominant_archetype

\* Two invocations that shared the engine have both returned, with different
\* archetype scores and different dominant archetypes.
C16_Witness ==
    \E t, u \in DOMAIN threads :
        /\ threads[t].pc = "done" /\ threads[u].pc = "done"
        /\ threads[t].result.dominant_archetype # threads[u].result.dominant_archetype
        /\ threads[t].result.archetype_scores # threads[u].result.archetype_scores

\* C21: a run of main() in which Submit is pressed in the coping test ends
\* without an exception, and the name shown under "Dominant Archetype" is the
\* dominant archetype of the analysis of the collected responses.
C21_SubmitShowsDominant ==
    (io.tool = "Coping Test" /\ io.event = "submit") =>
        /\ io.raised = "none"
        /\ \A selected \in {AllNever} :
              \A result \in {analyze_responses(archetype_subscale_mapping,
                                                collect_user_responses(selected), clock)} :
                  display_coping_results(result) = capitalize(result.dominant_archetype)

\* The last run of main() answered a chat message.
ChatAnswered == io.tool = "Chat" /\ io.event = "send" /\ io.raised = "none"

\* C22: a chat message sent while assessment_results is still None is
\* forwarded to generate_response with an empty profile, and the assistant
\* entry is its reply, not the apology of _get_ai_response.
C22_NoneProfileForwarded ==
    (ChatAnswered /\ session.assessment_results.none) =>
        LET n == Len(session.messages)
        IN  /\ io.llm_calls = 1
            /\ io.payload # <<>>
            /\ session.messages[n].role = "assistant"
            /\ session.messages[n].content # Apology

\* C23: the request of a chat message is the system prompt, then the user
\* messages among the last five entries the transcript had before the prompt,
\* then the prompt, which without an equal earlier message occurs once.
C23_ContextPrecedesPrompt ==
    (ChatAnswered /\ io.llm_calls = 1) =>
        LET n == Len(session.messages)
            prompt == session.messages[n - 1].content
            before == SubSeq(session.messages, 1, n - 2)
            context == contents(SelectSeq(last(before, 5), LAMBDA msg : msg.role = "user"))
            m == Len(io.payload)
        IN  /\ io.payload[1].role = "system"
            /\ io.payload[m] = [role |-> "user", content |-> <<prompt>>]
            /\ SubSeq(io.payload, 2, m - 1) =
                   [k \in 1..Len(context) |-> [role |-> "user", content |-> <<context[k]>>]]
            /\ (\A k \in 1..Len(before) : before[k].content # prompt) =>
                   Cardinality({k \in 1..m : io.payload[k].content = <<prompt>>}) = 1

\* C24: after any chat submissions and clear_chat calls the transcript
\* alternates user and assistant entries, starting with a user entry and
\* ending with an assistant entry, whatever failed in a submission.
C24_TranscriptAlternates ==
    /\ Len(session.messages) % 2 = 0
    /\ \A k \in 1..Len(session.messages) :
          session.messages[k].role = IF k % 2 = 1 THEN "user" ELSE "assistant"
    /\ io.event = "send" =>
          /\ Len(session.messages) >= 2
          /\ session.messages[Len(session.messages)].timestamp = clock - 1
          /\ session.messages[Len(session.messages) - 1].timestamp = clock - 2

\* Two prompts were submitted with a clear_chat between them, the second with a
\* failed completion call and the failed save: the transcript has two entries.
C24_Witness ==
    /\ clock = 4
    /\ Len(session.messages) = 2
    /\ io.event = "send"
    /\ io.llm_outcome = "OpenAIError"
    /\ io.db_writes = 0
    /\ session.messages[2].content = ServiceFallback

\* C25: register returns False for a registered email and leaves the store as
\* it is; for a new email it returns True and stores the record given, leaving
\* the other records as they are.  So a stored record never changes again.
C25_RegisterKeepsFirst ==
    [][/\ \A e \in DOMAIN session.users :
             e \in DOMAIN session'.users /\ session'.users[e] = session.users[e]
       /\ io'.event = "register" =>
             LET email == io'.args[1]
             IN  IF email \in DOMAIN session.users
                 THEN io'.returned = FALSE /\ session'.users = session.users
                 ELSE /\ io'.returned = TRUE
                      /\ DOMAIN session'.users = DOMAIN session.users \cup {email}
                      /\ session'.users[email] =
                             [password |-> io'.args[2], name |-> io'.args[3],
                              service |-> io'.args[4]]]_vars

\* register was refused for a registered email and another password, and the
\* record of the first registration is still stored.
C25_Witness ==
    /\ io.event = "register"
    /\ ~io.returned
    /\ io.args[1] \in DOMAIN session.users
    /\ session.users[io.args[1]].password # io.args[2]
    /\ session.users[io.args[1]].service # io.args[4]

\* C26: login returns True exactly when the email is registered with the
\* password given; it then sets current_user to the email, name and service of
\* the record; a failed login changes neither the store nor current_user.
C26_LoginChecksPassword ==
    [][io'.event = "login" =>
          LET email == io'.args[1]
              ok == email \in DOMAIN session.users
                    /\ session.users[email].password = io'.args[2]
          IN  /\ io'.returned = ok
              /\ session'.users = session.users
              /\ IF ok
                 THEN session'.current_user =
                          <<[email |-> email, name |-> session.users[email].name,
                             service |-> session.users[email].service]>>
                 ELSE session'.current_user = session.current_user]_vars

\* A login with a wrong password failed after a successful one, and the
\* current user is still the one of the successful login.
C26_Witness ==
    /\ io.event = "login"
    /\ ~io.returned
    /\ io.args[1] \in DOMAIN session.users
    /\ session.current_user # <<>>
    /\ session.current_user[1].email # io.args[1]

Tools == {"Coping Test", "ICP Questionnaire", "SEO Analyzer", "Chat"}

\* C27: the authenticated flag starts False; a run of main() makes it True
\* only by a register or a login that returned True; and a run that finds the
\* flag False renders the authentication page and no tool.
C27_ToolsNeedAuthentication ==
    /\ ~session.authenticated
    /\ [][/\ (~session.authenticated /\ session'.authenticated) =>
                (io'.event \in {"register", "login"} /\ io'.returned)
          /\ ~session.authenticated =>
                (io'.tool = "Authentication" /\ io'.tool \notin Tools)
          /\ io'.tool \in Tools => session.authenticated]_vars

\* A tool was rendered in the session of a user who registered.
C27_Witness ==
    /\ session.authenticated
    /\ io.tool \in Tools
    /\ DOMAIN session.users # {}

Stages == <<"brand_questionnaire", "icp_questionnaire", "webpage_analyzer", "marketing_chat">>

StageIndex(stage) == CHOOSE k \in 1..Len(Stages) : Stages[k] = stage

\* The stage never moves back and never skips a stage.
C28_StageMovesForward ==
    [][\/ session'.marketing_stage = session.marketing_stage
       \/ StageIndex(session'.marketing_stage) = StageIndex(session.marketing_stage) + 1]_vars

\* The data of every completed form is set.
C28_DataSet ==
    /\ StageIndex(session.marketing_stage) > 1 => session.brand_data # <<>>
    /\ StageIndex(session.marketing_stage) > 2 => session.icp_data # <<>>

\* C28: the stage of the marketing flow moves forward one stage at a time,
\* the data of every stage passed is set, and a user who keeps completing the
\* stage shown eventually reaches the stage marketing_chat.
C28_MarketingFlow ==
    /\ C28_StageMovesForward
    /\ []C28_DataSet
    /\ <>(session.marketing_stage = "marketing_chat")

\* The number of answers of a response mapping over the named question ids.
MaxNamed == 2

\* Two question ids named after every subscale of the engine.
NamedQuestionIds ==
    {s \o <<"_", n>> : s \in DOMAIN subscales, n \in {"1", "2"}}

\* Response mappings over these ids and the valid labels.
NamedResponseInputs ==
    UNION {[ids -> ValidLabels] :
              ids \in {S \in SUBSET NamedQuestionIds : Cardinality(S) <= MaxNamed}}

\* C29: every archetype is the dominant archetype of some response mapping
\* with valid labels, and every subscale of the engine gets a non-zero score
\* from some response mapping.
C29_EveryOutcomeReachable ==
    /\ \A a \in ArchetypeNames :
          \E rs \in NamedResponseInputs :
             \A r \in {analyze_responses(archetype_subscale_mapping, rs, clock)} :
                /\ r.raised = "none"
                /\ r.dominant_archetype = a
    /\ \A s \in DOMAIN subscales :
          \E rs \in NamedResponseInputs :
             \A scores \in {_calculate_subscale_scores(rs)} :
                /\ s \in DOMAIN scores
                /\ ~FracEq(scores[s], Zero)

\* Some keyword of the list occurs in the query when letter case is ignored.
any_keyword_lowered(keywords, query) ==
    \E k \in 1..Len(keywords) : str_in(str_lower(keywords[k]), str_lower(query))

\* The categories one of whose keywords occurs in the query in some letter case.
Matching(query) ==
    {i \in 1..Len(keywords_to_categories) :
        any_keyword_lowered(keywords_to_categories[i][2], query)}

\* C30: suggest_category returns the first category, in the order education,
\* marketing, human resources, with a keyword that occurs in the query in any
\* letter case, and "general" exactly when no keyword occurs.
C30_FirstMatchingCategory ==
    io.event = "suggest_category" =>
        /\ Matching(io.args) # {} =>
              \E i \in Matching(io.args) :
                 /\ \A j \in Matching(io.args) : i <= j
                 /\ io.returned = keywords_to_categories[i][1]
        /\ io.returned = "general" <=> Matching(io.args) = {}

====
